---- MODULE Spec2Model ----
(***************************************************************************)
(* gonb-echarts: the Go pipeline of echarts.go (parseRendering,            *)
(* DisplayContent, Display) and the browser-side bootstrap that            *)
(* displayTmpl generates (loadScriptsThenExecute and the RequireJS         *)
(* branch).                                                                *)
(*                                                                         *)
(* Strings are sequences of characters; a fixed fragment of a format or of *)
(* the template is one element, a character of a caller's or a document's  *)
(* string is one element.                                                  *)
(***************************************************************************)
EXTENDS Integers, Sequences, FiniteSets, TLC

VARIABLES
    \* the Go pipeline
    chart, surface, ret, ncalls,
    \* the page the generated bootstrap runs in
    hasRequireJS, dom, run, pendingReq, rjsPaths, rjsMod, rjsFetched, winEcharts, log

goVars == <<chart, surface, ret, ncalls>>

pageVars == <<hasRequireJS, dom, run, pendingReq, rjsPaths, rjsMod, rjsFetched, winEcharts, log>>

vars == <<chart, surface, ret, ncalls,
          hasRequireJS, dom, run, pendingReq, rjsPaths, rjsMod, rjsFetched, winEcharts, log>>

\* ------------------------------------------------------------------ bounds

MaxDocLen == 3

MaxCalls == 2

MaxRuns == 2

MaxSrcs == 2

\* ------------------------------------------------------------- Go pipeline

Nil == "nil"

Range(s) == {s[i] : i \in 1..Len(s)}

RECURSIVE Concat(_)
Concat(ss) == IF ss = <<>> THEN <<>> ELSE Head(ss) \o Concat(Tail(ss))

\* The strings the rendered documents and the callers use.
Url1 == <<"/e", ".js">>

Url2 == <<"/d", ".js", "/x", ".js">>

Code1 == <<"a">>

Code2 == <<"b", "\"">>

Styles == {<<"w">>, <<"w", "\"", "<">>}

ChartIDs == {<<"c", "1">>}

\* An element of the rendered document, as goquery sees it.
Node(tag, hasSrc, src, text) ==
    [tag |-> tag, hasSrc |-> hasSrc, src |-> src, text |-> text]

Nodes ==
    {Node("script", TRUE, u, <<>>) : u \in {Url1, Url2, <<>>}}
    \cup {Node("script", TRUE, Url1, Code1)}
    \cup {Node("script", FALSE, <<>>, t) : t \in {<<>>, Code1, Code2}}
    \cup {Node("div", FALSE, <<>>, Code1), Node("img", TRUE, Url1, <<>>)}

Docs == UNION {[1..n -> Nodes] : n \in 0..MaxDocLen}

\* A chart: what DisplayContent's type switch, chart.Render,
\* goquery.NewDocumentFromReader and displayTmpl.Execute make of it.
Chart(supported, renderErr, parseErr, tmplErr, id, doc) ==
    [supported |-> supported, renderErr |-> renderErr, parseErr |-> parseErr,
     tmplErr |-> tmplErr, ChartID |-> id, doc |-> doc]

Charts ==
    {Chart(TRUE, FALSE, FALSE, FALSE, id, d) : id \in ChartIDs, d \in Docs}
    \cup {Chart(FALSE, FALSE, FALSE, FALSE, id, <<>>) : id \in ChartIDs}
    \cup {Chart(TRUE, TRUE, FALSE, FALSE, id, <<>>) : id \in ChartIDs}
    \cup {Chart(TRUE, FALSE, TRUE, FALSE, id, <<>>) : id \in ChartIDs}
    \cup {Chart(TRUE, FALSE, FALSE, TRUE, id,
                <<Node("script", TRUE, Url1, <<>>), Node("script", FALSE, <<>>, Code1)>>)
          : id \in ChartIDs}

renderData(id) == [ChartId |-> id, JsAssetsSrc |-> <<>>, JsAssetsCode |-> <<>>]

\* doc.Find("script")
Find(doc, tag) == SelectSeq(doc, LAMBDA n : n.tag = tag)

\* A plausible slip of the callback: a source already listed is not listed again.
EachBodyDedup(selection, data) ==
    IF ~selection.hasSrc
    THEN IF selection.text # <<>>
         THEN [data EXCEPT !.JsAssetsCode = Append(@, selection.text)]
         ELSE data
    ELSE IF selection.src \in Range(data.JsAssetsSrc)
         THEN data
         ELSE [data EXCEPT !.JsAssetsSrc = Append(@, selection.src)]

\* The callback of Each: one <script> element.
EachBody(selection, data) ==
    IF ~selection.hasSrc
    THEN IF selection.text # <<>>
         THEN [data EXCEPT !.JsAssetsCode = Append(@, selection.text)]
         ELSE data
    ELSE [data EXCEPT !.JsAssetsSrc = Append(@, selection.src)]

RECURSIVE Each(_, _)
Each(sel, data) ==
    IF sel = <<>> THEN data ELSE Each(Tail(sel), EachBody(Head(sel), data))

parseRendering(c) ==
    IF c.renderErr
    THEN [data |-> renderData(c.ChartID), err |-> "render"]
    ELSE IF c.parseErr
    THEN [data |-> renderData(c.ChartID), err |-> "parse"]
    ELSE [data |-> Each(Find(c.doc, "script"), renderData(c.ChartID)), err |-> Nil]

\* The type switch of DisplayContent.
TypeSwitch(c) ==
    IF c.supported
    THEN parseRendering(c)
    ELSE [data |-> renderData(<<>>), err |-> "unsupported"]

\* A plausible slip of the check: both lists must be empty to fail.
MissingAssetsBoth(data) ==
    Len(data.JsAssetsSrc) = 0 /\ Len(data.JsAssetsCode) = 0

MissingAssets(data) ==
    Len(data.JsAssetsSrc) = 0 \/ Len(data.JsAssetsCode) = 0

\* displayTmpl, executed on data: the text of the script.
TmplCode(codes) == Concat([i \in 1..Len(codes) |-> <<"\n\t\t">> \o codes[i] \o <<"\n\t">>])

TmplSrcs(srcs) == Concat([i \in 1..Len(srcs) |-> <<"\n\t\t\"">> \o srcs[i] \o <<"\",\t\n\t">>])

displayTmpl(data) ==
    <<"\n(() => {\n\tlet echartsFn = function() {\n\t">>
    \o TmplCode(data.JsAssetsCode)
    \o <<"\n\t}\n\n\tlet echartsSrcs = [\n\t">>
    \o TmplSrcs(data.JsAssetsSrc)
    \o <<"\n\t];\n", "loader", "\n})();\n">>

\* A plausible slip: the style is attribute-escaped before it is written.
RECURSIVE HtmlEscape(_)
HtmlEscape(s) ==
    IF s = <<>> THEN <<>>
    ELSE (IF Head(s) = "\"" THEN <<"&#34;">>
          ELSE IF Head(s) = "<" THEN <<"&lt;">> ELSE <<Head(s)>>)
         \o HtmlEscape(Tail(s))

SprintfEscaped(id, style, code) ==
    <<"<div id=\"">> \o id \o <<"\" style=\"">> \o HtmlEscape(style)
    \o <<"\"></div>", "<script>">> \o code \o <<"</script>">>

\* fmt.Sprintf(`<div id="%s" style="%s"></div><script>%s</script>`, ...)
Sprintf(id, style, code) ==
    <<"<div id=\"">> \o id \o <<"\" style=\"">> \o style
    \o <<"\"></div>", "<script>">> \o code \o <<"</script>">>

DisplayContent(c, style) ==
    LET p == TypeSwitch(c) IN
    IF p.err # Nil
    THEN [html |-> <<>>, err |-> p.err, data |-> p.data]
    ELSE IF MissingAssets(p.data)
    THEN [html |-> <<>>, err |-> "assets", data |-> p.data]
    ELSE IF c.tmplErr
    THEN [html |-> <<>>, err |-> "template", data |-> p.data]
    ELSE [html |-> Sprintf(p.data.ChartId, style, displayTmpl(p.data)),
          err |-> Nil, data |-> p.data]

\* A plausible slip of Display: the HTML is forwarded before the error is looked at.
DisplayHtmlAlways(r) == <<r.html>>

\* What Display hands to gonbui.DisplayHtml for the result r of DisplayContent.
DisplayHtml(r) == IF r.err # Nil THEN <<>> ELSE <<r.html>>

GoStart ==
    /\ chart \in Charts
    /\ surface = <<>>
    /\ ret = [op |-> "none", style |-> <<>>, html |-> <<>>, err |-> Nil,
              data |-> renderData(<<>>)]
    /\ ncalls = 0

\* Display(chart, style)
Display(style) ==
    /\ ncalls < MaxCalls
    /\ LET r == DisplayContent(chart, style) IN
       /\ surface' = surface \o DisplayHtml(r)
       /\ ret' = [op |-> "Display", style |-> style, html |-> <<>>, err |-> r.err,
                  data |-> r.data]
    /\ ncalls' = ncalls + 1
    /\ UNCHANGED <<chart, pageVars>>

\* DisplayContent(chart, style), called by the user.
CallDisplayContent(style) ==
    /\ ncalls < MaxCalls
    /\ LET r == DisplayContent(chart, style) IN
       ret' = [op |-> "DisplayContent", style |-> style, html |-> r.html,
               err |-> r.err, data |-> r.data]
    /\ ncalls' = ncalls + 1
    /\ UNCHANGED <<chart, surface, pageVars>>

GoNext ==
    \/ \E style \in Styles : Display(style)
    \/ \E style \in Styles : CallDisplayContent(style)


\* ------------------------------------------- the generated bootstrap (page)

Runs == 1..MaxRuns

Urls == {Url1, Url2}

\* The lists echartsSrcs can hold: DisplayContent refuses an empty JsAssetsSrc.
SrcLists == UNION {[1..n -> Urls] : n \in 1..MaxSrcs}

\* The module id of require(['echarts']).
EchartsMod == <<"echarts">>

ModIds == {EchartsMod} \cup Urls

\* A <script> element of the document. owner is the run whose scriptLoaded is
\* its onload handler, 0 for an element RequireJS inserted for module mod.
Tag(src, async, owner, mod) ==
    [src |-> src, async |-> async, owner |-> owner, mod |-> mod, status |-> "loading"]

\* What a run did, in the order it did it.
Ev(ev, url) ==
    [ev |-> ev, url |-> url, path |-> <<>>, existed |-> FALSE, bound |-> FALSE,
     unloaded |-> {}]

\* document.querySelector('script[src="'+src+'"]')
existingScript(d, src) == \E i \in 1..Len(d) : d[i].src = src

\* The URLs of scripts no element of d has finished loading.
Unloaded(d, scripts) ==
    {u \in Range(scripts) : ~\E i \in 1..Len(d) : d[i].src = u /\ d[i].status = "loaded"}

\* src.lastIndexOf(tok): the 0-based index of the last tok, -1 when there is none.
lastIndexOf(src, tok) ==
    LET at == {i \in 1..Len(src) : src[i] = tok} IN
    IF at = {} THEN -1 ELSE (CHOOSE i \in at : \A j \in at : j <= i) - 1

\* A plausible slip: indexOf for lastIndexOf.
indexOf(src, tok) ==
    LET at == {i \in 1..Len(src) : src[i] = tok} IN
    IF at = {} THEN -1 ELSE (CHOOSE i \in at : \A j \in at : i <= j) - 1

\* src.substring(0, end)
substring(src, end) == SubSeq(src, 1, end)

\* A plausible slip of the cut: the first ".js" for the last.
srcWithoutExtensionFirst(src) == substring(src, indexOf(src, ".js"))

\* src.substring(0, src.lastIndexOf(".js"))
srcWithoutExtension(src) == substring(src, lastIndexOf(src, ".js"))

\* The URL RequireJS fetches module m from: 'echarts' at its configured path
\* plus ".js", a module named by a URL at that URL.
nameToUrl(m, paths) == IF m = EchartsMod THEN paths \o <<".js">> ELSE m

\* fn(): the inline scripts run. The event keeps what was not loaded by then.
fn(st, scripts) ==
    [st EXCEPT !.log = Append(@, [Ev("fn", <<>>) EXCEPT
                                    !.unloaded = Unloaded(st.dom, scripts),
                                    !.bound = st.bound])]

\* A plausible slip of the comparison: any loaded script fires the callback.
ScriptLoadedFiresEarly(loadedCount, length) == loadedCount >= 1 /\ loadedCount <= length

\* loadedCount === scripts.length
ScriptLoadedFires(loadedCount, length) == loadedCount = length

\* scriptLoaded()
scriptLoaded(st, scripts) ==
    LET s1 == [st EXCEPT !.loadedCount = @ + 1] IN
    IF ScriptLoadedFires(s1.loadedCount, Len(scripts)) THEN fn(s1, scripts) ELSE s1

\* A plausible slip: script.async is left at its default.
ScriptAsyncDefault == TRUE

\* script.async = false
ScriptAsync == FALSE

\* The body of the for loop of loadScriptsThenExecute, for one src, in run r.
ForBody(r, src, st, scripts) ==
    LET existed == existingScript(st.dom, src)
        did(ev) == [Ev(ev, src) EXCEPT !.existed = existed, !.bound = st.bound] IN
    IF existed
    THEN scriptLoaded([st EXCEPT !.log = Append(@, did("present"))], scripts)
    ELSE IF hasRequireJS
    THEN [st EXCEPT !.pend = Append(@, src),
                    !.log = Append(@, did("require"))]
    ELSE [st EXCEPT !.dom = Append(@, Tag(src, ScriptAsync, r, src)),
                    !.log = Append(@, did("append"))]

RECURSIVE ForOf(_, _, _, _)
ForOf(r, rest, st, scripts) ==
    IF rest = <<>> THEN st
    ELSE ForOf(r, Tail(rest), ForBody(r, Head(rest), st, scripts), scripts)

\* loadScriptsThenExecute(scripts, fn) in run r, on the page state st.
loadScriptsThenExecute(r, scripts, st) ==
    IF Len(scripts) = 0
    THEN fn(st, scripts)
    ELSE ForOf(r, scripts, [st EXCEPT !.loadedCount = 0], scripts)

\* The part of the page a run's synchronous code reads and writes.
PageOf(r) ==
    [dom |-> dom, log |-> log[r], loadedCount |-> run[r].loadedCount,
     pend |-> pendingReq[r], bound |-> winEcharts]

\* The page after run r's synchronous code left it as st.
Commit(r, st, state) ==
    /\ dom' = st.dom
    /\ log' = [log EXCEPT ![r] = st.log]
    /\ pendingReq' = [pendingReq EXCEPT ![r] = st.pend]
    /\ run' = [run EXCEPT ![r].loadedCount = st.loadedCount, ![r].state = state]

PageInit ==
    /\ hasRequireJS \in BOOLEAN
    /\ dom = <<>>
    /\ run = [r \in Runs |-> [state |-> "idle", srcs |-> <<>>, scripts |-> <<>>,
                              loadedCount |-> 0, second |-> FALSE]]
    /\ pendingReq = [r \in Runs |-> <<>>]
    /\ rjsPaths = <<>>
    /\ rjsMod = [m \in ModIds |-> "none"]
    /\ rjsFetched = {}
    /\ winEcharts = FALSE
    /\ log = [r \in Runs |-> <<>>]

\* Some run has executed its inline scripts.
SomeRunDone == \E q \in Runs : \E k \in 1..Len(log[q]) : log[q][k].ev = "fn"

\* The charts are displayed one after the other: run r is the r-th bootstrap the
\* page executes.
NextRun(r) ==
    /\ run[r].state = "idle"
    /\ \A q \in 1..(r - 1) : run[q].state # "idle"

\* The bootstrap of one displayed chart runs: the RequireJS branch.
RunWithRequireJS(r, srcs) ==
    /\ hasRequireJS
    /\ NextRun(r)
    /\ LET src == Head(srcs)
           echartsSrcs == Tail(srcs)
           existed == existingScript(dom, src) IN
       /\ rjsPaths' = srcWithoutExtension(src)
       /\ pendingReq' = [pendingReq EXCEPT ![r] = Append(@, EchartsMod)]
       /\ log' = [log EXCEPT ![r] =
                    @ \o <<[Ev("config", src) EXCEPT
                              !.path = srcWithoutExtension(src), !.existed = existed],
                           [Ev("require", EchartsMod) EXCEPT !.existed = existed]>>]
       /\ run' = [run EXCEPT ![r] = [state |-> "waitEcharts", srcs |-> srcs,
                                     scripts |-> echartsSrcs, loadedCount |-> 0,
                                     second |-> SomeRunDone]]
    /\ UNCHANGED <<hasRequireJS, dom, rjsMod, rjsFetched, winEcharts, goVars>>

\* The bootstrap of one displayed chart runs: no RequireJS.
RunWithoutRequireJS(r, srcs) ==
    /\ ~hasRequireJS
    /\ NextRun(r)
    /\ LET st == loadScriptsThenExecute(r, srcs, PageOf(r)) IN
       /\ dom' = st.dom
       /\ log' = [log EXCEPT ![r] = st.log]
       /\ run' = [run EXCEPT ![r] = [state |-> "loading", srcs |-> srcs,
                                     scripts |-> srcs, loadedCount |-> st.loadedCount,
                                     second |-> SomeRunDone]]
    /\ UNCHANGED <<hasRequireJS, pendingReq, rjsPaths, rjsMod, rjsFetched, winEcharts,
                   goVars>>

\* A script element's load event: onload of the run that appended it, or the
\* module's definition for an element of RequireJS.
ScriptOnload(i) ==
    /\ dom[i].status = "loading"
    /\ LET d == [dom EXCEPT ![i].status = "loaded"]
           r == dom[i].owner IN
       IF r = 0
       THEN /\ dom' = d
            /\ rjsMod' = [rjsMod EXCEPT ![dom[i].mod] = "defined"]
            /\ UNCHANGED <<run, log, pendingReq>>
       ELSE /\ Commit(r, scriptLoaded(
                      [PageOf(r) EXCEPT !.dom = d,
                                        !.log = Append(@, Ev("onload", dom[i].src))],
                      run[r].scripts), run[r].state)
            /\ UNCHANGED rjsMod
    /\ UNCHANGED <<hasRequireJS, rjsPaths, rjsFetched, winEcharts, goVars>>

\* A plausible slip of the handler: a failed script counts as loaded.
onerrorProceeds(st, src, scripts) ==
    scriptLoaded([st EXCEPT !.log = Append(@, Ev("onerror", src))], scripts)

\* script.onerror: console.error('Failed to load script: '+src)
onerror(st, src, scripts) == [st EXCEPT !.log = Append(@, Ev("onerror", src))]

\* A script element's error event: onerror of the run that appended it, or the
\* module's error for an element of RequireJS, whose callbacks are then not called.
ScriptOnerror(i) ==
    /\ dom[i].status = "loading"
    /\ LET d == [dom EXCEPT ![i].status = "failed"]
           r == dom[i].owner IN
       IF r = 0
       THEN /\ dom' = d
            /\ rjsMod' = [rjsMod EXCEPT ![dom[i].mod] = "error"]
            /\ UNCHANGED <<run, log, pendingReq>>
       ELSE /\ Commit(r, onerror([PageOf(r) EXCEPT !.dom = d], dom[i].src,
                                 run[r].scripts), run[r].state)
            /\ UNCHANGED rjsMod
    /\ UNCHANGED <<hasRequireJS, rjsPaths, rjsFetched, winEcharts, goVars>>

\* RequireJS, a tick after require(): a module not yet in its registry is
\* fetched by a script element of its own, unless its URL was fetched before.
RequireFetch(m) ==
    /\ \E r \in Runs : m \in Range(pendingReq[r])
    /\ rjsMod[m] = "none"
    /\ rjsMod' = [rjsMod EXCEPT ![m] = "fetching"]
    /\ LET url == nameToUrl(m, rjsPaths) IN
       /\ rjsFetched' = rjsFetched \cup {url}
       /\ dom' = IF url \in rjsFetched THEN dom ELSE Append(dom, Tag(url, TRUE, 0, m))
    /\ UNCHANGED <<hasRequireJS, run, pendingReq, rjsPaths, winEcharts, log, goVars>>

Without(s, k) == SubSeq(s, 1, k - 1) \o SubSeq(s, k + 1, Len(s))

\* The callback of require(['echarts'], ...): bind the global, load the rest.
EchartsCallback(r, k) ==
    /\ k \in 1..Len(pendingReq[r])
    /\ pendingReq[r][k] = EchartsMod
    /\ rjsMod[EchartsMod] = "defined"
    /\ winEcharts' = TRUE
    /\ LET st0 == [PageOf(r) EXCEPT
                     !.pend = Without(@, k),
                     !.bound = TRUE,
                     !.log = @ \o <<Ev("resolved", EchartsMod),
                                    [Ev("bind", EchartsMod) EXCEPT !.bound = TRUE]>>] IN
       Commit(r, loadScriptsThenExecute(r, run[r].scripts, st0), "loading")
    /\ UNCHANGED <<hasRequireJS, rjsPaths, rjsMod, rjsFetched, goVars>>

\* The callback of require([src], ...) in the loop: scriptLoaded().
RequireCallback(r, k) ==
    /\ k \in 1..Len(pendingReq[r])
    /\ pendingReq[r][k] # EchartsMod
    /\ rjsMod[pendingReq[r][k]] = "defined"
    /\ LET st0 == [PageOf(r) EXCEPT
                     !.pend = Without(@, k),
                     !.log = Append(@, Ev("resolved", pendingReq[r][k]))] IN
       Commit(r, scriptLoaded(st0, run[r].scripts), run[r].state)
    /\ UNCHANGED <<hasRequireJS, rjsPaths, rjsMod, rjsFetched, winEcharts, goVars>>

PageNext ==
    \/ \E r \in Runs, srcs \in SrcLists : RunWithRequireJS(r, srcs)
    \/ \E r \in Runs, srcs \in SrcLists : RunWithoutRequireJS(r, srcs)
    \/ \E i \in 1..Len(dom) : ScriptOnload(i)
    \/ \E i \in 1..Len(dom) : ScriptOnerror(i)
    \/ \E m \in ModIds : RequireFetch(m)
    \/ \E r \in Runs, k \in 1..MaxSrcs : EchartsCallback(r, k)
    \/ \E r \in Runs, k \in 1..MaxSrcs : RequireCallback(r, k)

\* ---------------------------------------------------------- specifications

\* The Go pipeline before any call, for the runs of the page alone.
GoIdle ==
    /\ chart = Chart(TRUE, FALSE, FALSE, FALSE, <<"c", "1">>,
                     <<Node("script", TRUE, Url1, <<>>),
                       Node("script", FALSE, <<>>, Code1)>>)
    /\ surface = <<>>
    /\ ret = [op |-> "none", style |-> <<>>, html |-> <<>>, err |-> Nil,
              data |-> renderData(<<>>)]
    /\ ncalls = 0

\* A page on which no bootstrap runs, for the calls of the Go pipeline alone.
PageIdle ==
    /\ PageInit
    /\ hasRequireJS = FALSE

Init == GoIdle /\ PageInit

Next == PageNext

\* The bootstraps of up to MaxRuns displayed charts on one page.
Spec == Init /\ [][Next]_vars

GoInit == GoStart /\ PageIdle

\* The calls of Display and DisplayContent.
GoSpec == GoInit /\ [][GoNext]_vars

\* ------------------------------------------------------ claims: Go pipeline

\* The positions of the document's <script> elements that carry a src attribute.
ExternalAt(doc) == {i \in 1..Len(doc) : doc[i].tag = "script" /\ doc[i].hasSrc}

\* The positions of its <script> elements without one whose text is not empty.
InlineAt(doc) ==
    {i \in 1..Len(doc) : doc[i].tag = "script" /\ ~doc[i].hasSrc /\ doc[i].text # <<>>}

\* list is the elements of doc at the positions at, in document order, read by get.
ListsInOrder(list, doc, at, get(_)) ==
    /\ Len(list) = Cardinality(at)
    /\ \A k \in 1..Len(list) :
          \E i \in at : /\ Cardinality({j \in at : j <= i}) = k
                        /\ list[k] = get(doc[i])

\* The chart's document reaches the Each loop of parseRendering.
Parsed == chart.supported /\ ~chart.renderErr /\ ~chart.parseErr

\* C1: after a call that parsed the rendered document, JsAssetsSrc is the src
\* values of the <script> elements with a src attribute and JsAssetsCode the
\* non-empty texts of those without, both in document order, duplicates kept,
\* nothing else added.
C1_ExtractionInOrder ==
    (ret.op # "none" /\ Parsed) =>
        /\ ListsInOrder(ret.data.JsAssetsSrc, chart.doc, ExternalAt(chart.doc),
                        LAMBDA n : n.src)
        /\ ListsInOrder(ret.data.JsAssetsCode, chart.doc, InlineAt(chart.doc),
                        LAMBDA n : n.text)

C1_Witness ==
    /\ ret.op # "none" /\ Parsed
    /\ Len(chart.doc) = 3
    /\ chart.doc[1].tag = "script" /\ chart.doc[1].hasSrc
    /\ chart.doc[2].tag = "script" /\ ~chart.doc[2].hasSrc
    /\ chart.doc[3].tag = "script" /\ chart.doc[3].hasSrc
    /\ ret.data.JsAssetsSrc = <<Url1, Url1>>
    /\ ret.data.JsAssetsCode = <<Code2>>

\* C2: when the rendered document yields no external script or no inline
\* script, the call returns an error and the empty HTML string, and nothing
\* reaches the display surface.
C2_MissingAssetsFails ==
    (ret.op # "none" /\ Parsed
       /\ (ExternalAt(chart.doc) = {} \/ InlineAt(chart.doc) = {})) =>
        /\ ret.err # Nil
        /\ ret.html = <<>>
        /\ surface = <<>>

C2_Witness ==
    /\ ret.op = "DisplayContent" /\ Parsed
    /\ Find(chart.doc, "script") = <<>>
    /\ ret.err = "assets" /\ ret.html = <<>>

Count(tok, s) == Cardinality({i \in 1..Len(s) : s[i] = tok})

\* The first position >= p at which item occurs in text, 0 when there is none.
RECURSIVE FindFrom(_, _, _)
FindFrom(item, text, p) ==
    IF p + Len(item) - 1 > Len(text) THEN 0
    ELSE IF SubSeq(text, p, p + Len(item) - 1) = item THEN p
    ELSE FindFrom(item, text, p + 1)

\* items occur in text one after the other, from position p on.
RECURSIVE OccurInOrder(_, _, _)
OccurInOrder(items, text, p) ==
    IF items = <<>> THEN TRUE
    ELSE LET q == FindFrom(Head(items), text, p) IN
         q # 0 /\ OccurInOrder(Tail(items), text, q + Len(Head(items)))

\* C5: on success DisplayContent returns one container element with the chart's
\* id and the caller's style string verbatim, immediately followed by one
\* <script> element whose text holds every URL and every inline body verbatim,
\* each in list order.
C5_OutputShape ==
    (ret.op = "DisplayContent" /\ ret.err = Nil) =>
        LET h == ret.html IN
        /\ Count("<div id=\"", h) = 1 /\ h[1] = "<div id=\""
        /\ Count("<script>", h) = 1 /\ Count("</script>", h) = 1
        /\ h[Len(h)] = "</script>"
        /\ \E i, j \in 1..Len(h) :
              /\ i < j
              /\ h[i] = "\" style=\"" /\ SubSeq(h, 2, i - 1) = chart.ChartID
              /\ h[j] = "\"></div>" /\ SubSeq(h, i + 1, j - 1) = ret.style
              /\ h[j + 1] = "<script>"
              /\ LET text == SubSeq(h, j + 2, Len(h) - 1) IN
                 /\ OccurInOrder(ret.data.JsAssetsSrc, text, 1)
                 /\ OccurInOrder(ret.data.JsAssetsCode, text, 1)

C5_Witness ==
    /\ ret.op = "DisplayContent" /\ ret.err = Nil
    /\ ret.style = <<"w", "\"", "<">>
    /\ ret.data.JsAssetsSrc = <<Url2, Url1>>
    /\ ret.data.JsAssetsCode = <<Code2>>

\* Some step of DisplayContent fails for the chart.
Failing(c) ==
    \/ ~c.supported \/ c.renderErr \/ c.parseErr \/ c.tmplErr
    \/ ExternalAt(c.doc) = {} \/ InlineAt(c.doc) = {}

\* C6: a call of Display sends the HTML of DisplayContent to the display
\* surface exactly once when no step fails, and sends nothing and returns the
\* error when one does; a call of DisplayContent sends nothing.
C6_NoPartialSuccess ==
    [][/\ (ret'.op = "Display" /\ ncalls' = ncalls + 1) =>
            IF Failing(chart)
            THEN surface' = surface /\ ret'.err # Nil
            ELSE /\ ret'.err = Nil
                 /\ surface' = Append(surface, DisplayContent(chart, ret'.style).html)
                 /\ DisplayContent(chart, ret'.style).html # <<>>
       /\ (ret'.op = "DisplayContent" /\ ncalls' = ncalls + 1) => surface' = surface
      ]_vars

C6_Witness ==
    /\ ret.op = "Display" /\ ret.err = Nil
    /\ ncalls = 2 /\ Len(surface) = 2

\* -------------------------------------------------------- claims: bootstrap

\* The positions of run r's events of the kinds evs.
EvAt(r, evs) == {k \in 1..Len(log[r]) : log[r][k].ev \in evs}

\* How often run r executed its inline scripts.
FnCount(r) == Cardinality(EvAt(r, {"fn"}))

Started(r) == run[r].state # "idle"

\* Every load run r asked for has completed and called back.
Settled(r) ==
    /\ Started(r)
    /\ pendingReq[r] = <<>>
    /\ \A i \in 1..Len(dom) : dom[i].owner = r => dom[i].status = "loaded"

\* C3: a run of the bootstrap that starts after another run has finished issues
\* no load request (script element, registration with the module loader,
\* require) for a URL whose script element is already in the document, with
\* and without a module loader, and the inline scripts run in both runs.
C3_NoRequestForExistingTag ==
    /\ \A r \in Runs :
          run[r].second =>
              \A k \in EvAt(r, {"append", "config", "require"}) : ~log[r][k].existed
    /\ (\A r \in Runs : Settled(r)) => \A r \in Runs : FnCount(r) >= 1

\* C4: a run executes its inline scripts at most once, and exactly once when
\* every load it asked for has completed.
C4_InlineExactlyOnce ==
    \A r \in Runs :
        /\ FnCount(r) <= 1
        /\ Settled(r) => FnCount(r) = 1

C4_Witness ==
    \E r \in Runs :
        /\ ~hasRequireJS /\ Settled(r) /\ FnCount(r) = 1
        /\ run[r].srcs = <<Url1, Url2>>
        /\ \E k \in EvAt(r, {"present"}) : log[r][k].url = Url1
        /\ \E k \in EvAt(r, {"onload"}) : log[r][k].url = Url2

\* C8: no run executes its inline scripts while a script it shares with another
\* run has not finished loading.
C8_NoInlineBeforeSharedLoaded ==
    \A r \in Runs : \A k \in EvAt(r, {"fn"}) :
        \A q \in Runs \ {r} : log[r][k].unloaded \cap Range(run[q].srcs) = {}

\* The events of run r's loop, one per URL of its list.
LoopEvents(r) == SelectSeq(log[r], LAMBDA e : e.ev \in {"present", "append", "require"})

\* The script elements run r appended, in document order.
AppendedBy(r) == SelectSeq(dom, LAMBDA t : t.owner = r)

\* Before its k-th event, run r saw url ready by one of the events evs.
ReadyBefore(r, k, url, evs) ==
    \E j \in 1..(k - 1) : log[r][j].url = url /\ log[r][j].ev \in evs

\* C9: without a module loader a run appends one script element, async
\* disabled, for every URL of its list that has no element yet, in list order,
\* and executes the inline scripts only after every URL of the list fired its
\* load event or was found present.
C9_TagInjection ==
    \A r \in Runs :
        (Started(r) /\ ~hasRequireJS) =>
            LET loop == LoopEvents(r)
                appends == SelectSeq(loop, LAMBDA e : e.ev = "append") IN
            /\ Len(loop) = Len(run[r].srcs)
            /\ \A k \in 1..Len(loop) :
                  /\ loop[k].url = run[r].srcs[k]
                  /\ loop[k].ev = IF loop[k].existed THEN "present" ELSE "append"
            /\ Len(AppendedBy(r)) = Len(appends)
            /\ \A k \in 1..Len(appends) :
                  /\ AppendedBy(r)[k].src = appends[k].url
                  /\ AppendedBy(r)[k].async = FALSE
            /\ \A k \in EvAt(r, {"fn"}) :
                  \A u \in Range(run[r].srcs) : ReadyBefore(r, k, u, {"onload", "present"})

C9_Witness ==
    \E r \in Runs :
        /\ ~hasRequireJS /\ FnCount(r) = 1
        /\ Len(AppendedBy(r)) = 1 /\ AppendedBy(r)[1].src = Url2
        /\ run[r].srcs = <<Url1, Url2>>
        /\ \E k \in EvAt(r, {"present"}) : log[r][k].url = Url1
        /\ \E k \in EvAt(r, {"append"}) : log[r][k].url = Url2

\* path is src cut before its last ".js".
CutAtLastJs(path, src) ==
    \E n \in 1..Len(src) :
        /\ src[n] = ".js"
        /\ \A j \in (n + 1)..Len(src) : src[j] # ".js"
        /\ path = SubSeq(src, 1, n - 1)

\* The part of C10 that the code keeps: the order of the RequireJS branch, with
\* "ready" read as "its require resolved or its element was found present".
\* With a module loader a run takes the first URL off the list, registers
\* it cut before its last ".js" as module 'echarts' and requires it; it requests
\* nothing else and does not execute the inline scripts before that require has
\* resolved and the export is bound to the global; then it loads the remaining
\* URLs and executes the inline scripts after each of them resolved or was
\* found present.
C10_RequireJSOrder ==
    \A r \in Runs :
        (Started(r) /\ hasRequireJS) =>
            /\ run[r].scripts = Tail(run[r].srcs)
            /\ log[r][1].ev = "config" /\ log[r][1].url = Head(run[r].srcs)
            /\ CutAtLastJs(log[r][1].path, Head(run[r].srcs))
            /\ log[r][2].ev = "require" /\ log[r][2].url = EchartsMod
            /\ EvAt(r, {"append", "config"}) = {1}
            /\ run[r].state = "waitEcharts" => Len(log[r]) = 2
            /\ Len(log[r]) > 2 =>
                  /\ log[r][3].ev = "resolved" /\ log[r][3].url = EchartsMod
                  /\ log[r][4].ev = "bind" /\ log[r][4].bound
            /\ \A k \in 5..Len(log[r]) :
                  /\ log[r][k].url # EchartsMod
                  /\ log[r][k].ev \in {"require", "present", "fn"} => log[r][k].bound
            /\ LET loop == LoopEvents(r) IN
               Len(log[r]) > 2 =>
                  /\ Len(loop) = Len(run[r].srcs)
                  /\ \A k \in 2..Len(loop) : loop[k].url = run[r].srcs[k]
            /\ \A k \in EvAt(r, {"fn"}) :
                  \A u \in Range(Tail(run[r].srcs)) :
                      ReadyBefore(r, k, u, {"resolved", "present"})

\* C10: with a module loader a run takes the first URL off the list, registers
\* it cut before its last ".js" as module 'echarts' and requires it, requests
\* nothing else and runs no inline script before that require resolved and the
\* export is bound to the global, then loads the remaining URLs, and executes
\* the inline scripts only after all of them have loaded.
C10_InlineAfterRestLoaded ==
    /\ C10_RequireJSOrder
    /\ \A r \in Runs :
          (Started(r) /\ hasRequireJS) =>
              \A k \in EvAt(r, {"fn"}) : log[r][k].unloaded = {}

C10_Witness ==
    \E r \in Runs :
        /\ hasRequireJS /\ FnCount(r) = 1
        /\ run[r].srcs = <<Url2, Url1>>
        /\ \E k \in EvAt(r, {"resolved"}) : log[r][k].url = Url1

\* A load run r asked for has failed: a script element it appended, or a
\* module it still waits for.
FailedLoad(r) ==
    \/ \E i \in 1..Len(dom) : dom[i].owner = r /\ dom[i].status = "failed"
    \/ \E k \in 1..Len(pendingReq[r]) : rjsMod[pendingReq[r][k]] = "error"

\* What run r requested so far: its events that append, register or require.
Requests(r) == SelectSeq(log[r], LAMBDA e : e.ev \in {"append", "config", "require"})

\* C11: a run one of whose requested loads failed has not executed its inline
\* scripts and never does, whatever else loads: the failure stays, the run
\* requests nothing again, and the error event of an element it appended only
\* adds the logged error to what the run did.
C11_FailedLoadStalls ==
    [][\A r \in Runs :
          /\ FailedLoad(r)' => FnCount(r)' = 0
          /\ FailedLoad(r) =>
                /\ FailedLoad(r)'
                /\ Requests(r)' = Requests(r)
                /\ Len(AppendedBy(r))' = Len(AppendedBy(r))
          /\ (\E i \in 1..Len(dom) :
                 dom[i].owner = r /\ dom[i].status = "loading"
                 /\ dom'[i].status = "failed") =>
                /\ \E e \in {Ev("onerror", u) : u \in Urls} : log'[r] = Append(log[r], e)
                /\ run'[r] = run[r]
       ]_vars

C11_Witness ==
    \E r \in Runs :
        /\ ~hasRequireJS /\ run[r].srcs = <<Url1, Url2>>
        /\ Len(AppendedBy(r)) = 2
        /\ AppendedBy(r)[1].status = "failed" /\ AppendedBy(r)[2].status = "loaded"
        /\ \E k \in EvAt(r, {"onerror"}) : log[r][k].url = Url1
        /\ \E k \in EvAt(r, {"onload"}) : log[r][k].url = Url2
        /\ FnCount(r) = 0

====
